---- MODULE Spec2Model ----
(***************************************************************************)
(* PacketStream decoder of ssb-packetstream (src/src/stream.rs).           *)
(*                                                                         *)
(* The decoder owns an AsyncRead source and turns its bytes into packets.  *)
(* The model has three parts:                                              *)
(*   - the source: a byte sequence of which a prefix has arrived, and an   *)
(*     end (clean end of input, or an I/O error) that the peer may signal; *)
(*   - the future built by recv_move/recv: its suspension point and the    *)
(*     header and body bytes it has read so far;                           *)
(*   - the PacketStream state slot and its operations poll_next,           *)
(*     is_closed, is_terminated and into_inner, and its being dropped.     *)
(* History variables (sent, out, last, frameStart, closedPolls, holder,    *)
(* attempts) record what was written to the source, what the operations    *)
(* returned, who owns the source and how many decode attempts began.       *)
(***************************************************************************)
EXTENDS Integers, Sequences, FiniteSets, TLC

\* ------------------------------------------------------------------ bounds
\* Largest body length a well-formed frame of the test streams declares.
MaxBody == 2
\* How many times poll_next is called on a decoder that is already Closed.
MaxClosedPolls == 2

\* --------------------------------------------------------- program constant
\* let mut head = [0; 9];
HeadLen == 9

\* ------------------------------------------------------------- byte fields
Min(a, b) == IF a < b THEN a ELSE b

\* An unsigned 32-bit value is kept as two 16-bit halves, value hi * 65536 + lo,
\* so that lengths of 2^31 and more stay exact (they exceed the checker's
\* integers).  U32 builds one from a small natural number.
U32(n) == [hi |-> n \div 65536, lo |-> n % 65536]
\* u = n, and u - n, for a small natural number n (n <= u where subtracted).
U32Is(u, n) == u.hi = 0 /\ u.lo = n
\* min(u - n, cap) for small n <= u and small cap.
U32Left(u, n, cap) == IF u.hi > 0 THEN cap ELSE Min(u.lo - n, cap)

\* BigEndian::read_u32(&head[1..5]): four bytes, most significant first.
read_u32_le(b) == [hi |-> b[4] * 256 + b[3], lo |-> b[2] * 256 + b[1]]
read_u32(b) == [hi |-> b[1] * 256 + b[2], lo |-> b[3] * 256 + b[4]]

\* BigEndian::read_i32(&head[5..]): the same bytes as two's complement.
read_i32_magnitude(b) ==
    (b[1] % 128) * 16777216 + b[2] * 65536 + b[3] * 256 + b[4]
read_i32(b) ==
    (IF b[1] >= 128 THEN b[1] - 256 ELSE b[1]) * 16777216
        + b[2] * 65536 + b[3] * 256 + b[4]

\* let body_len = BigEndian::read_u32(&head[1..5]) as usize;
body_len_of(head) == read_u32(SubSeq(head, 2, 5))

\* let id = BigEndian::read_i32(&head[5..]);
id_of(head) == read_i32(SubSeq(head, 6, 9))

\* head == [0u8; 9]
is_goodbye(head) == head = [i \in 1..HeadLen |-> 0]

\* head[0].into() for IsStream, IsEnd and BodyType (crate::packet).
decode_flags(b) ==
    [is_stream |-> (b \div 8) % 2 = 1,
     is_end    |-> (b \div 4) % 2 = 1,
     body_type |-> CASE b % 4 = 0 -> "Binary"
                     [] b % 4 = 1 -> "Utf8"
                     [] OTHER     -> "Json"]

\* Packet::new(head[0].into(), head[0].into(), head[0].into(), id, body)
new_packet(head, body) ==
    [flags |-> decode_flags(head[1]), id |-> id_of(head), body |-> body]

\* ------------------------------------------------------ the writing side
\* The wire format the peer (PacketSink) produces: flag byte, body length as
\* unsigned 32-bit big-endian, id as signed 32-bit big-endian, body.
write_u32(u) == << u.hi \div 256, u.hi % 256, u.lo \div 256, u.lo % 256 >>
\* \div rounds down and % is never negative, which gives two's complement.
write_i32(i) ==
    << (i \div 16777216) % 256, (i \div 65536) % 256, (i \div 256) % 256, i % 256 >>
encode_header(f) == <<f.flag>> \o write_u32(f.len) \o write_i32(f.id)
encode(f) == encode_header(f) \o f.body

RECURSIVE Wire(_)
Wire(fs) == IF fs = <<>> THEN <<>> ELSE encode(Head(fs)) \o Wire(Tail(fs))

\* ------------------------------------------------------- the test streams
FlagBytes == {0, 10}
Ids == {0, -1}
HugeLen == [hi |-> 32768, lo |-> 1]
BodyOf(n) == [i \in 1..n |-> i]

\* A frame is what the peer wrote: a header declaring len, then body bytes.
\* Well-formed frames carry exactly len body bytes; the frame declaring
\* HugeLen is followed by fewer bytes than it declares.
Frames ==
    { [flag |-> fl, len |-> U32(n), id |-> i, body |-> BodyOf(n)] :
        fl \in FlagBytes, n \in 0..MaxBody, i \in Ids }
    \cup { [flag |-> fl, len |-> HugeLen, id |-> -2147483647 - 1, body |-> <<7>>] :
        fl \in FlagBytes }

Goodbye == [flag |-> 0, len |-> U32(0), id |-> 0, body |-> <<>>]
SecondFrame == [flag |-> 5, len |-> U32(1), id |-> 12345, body |-> <<255>>]

\* What the peer wrote: any first frame and the goodbye, or two frames and the
\* goodbye.  The source may end after any number of these bytes (Close), so
\* every truncation of these streams, the empty one included, is covered.
FirstOfTwo == { f \in Frames : f.flag = 10 /\ f.id = -1 }
Streams ==
    { <<f, Goodbye>> : f \in Frames }
    \cup { <<f, SecondFrame, Goodbye>> : f \in FirstOfTwo }

\* ------------------------------------------------------------- the state
VARIABLES
    sent,        \* history: the frames the peer wrote, in order
    input,       \* the bytes of the source, Wire(sent)
    arrived,     \* how many bytes of input the source can deliver by now
    ended,       \* "open", or how the source ended: "eof" or "err"
    srcPos,      \* how many bytes have been read from the source
    st,          \* the State slot: "Ready", "Waiting", "Closed", "Invalid"
    fut,         \* the pending recv_move future held by Waiting
    alive,       \* FALSE once the decoder is consumed or dropped
    out,         \* history: the results of the completed decode attempts
    last,        \* history: the last operation, what it saw and returned
    frameStart,  \* history: srcPos when the current decode attempt began
    closedPolls, \* history: poll_next calls made on a Closed decoder
    holder,      \* history: the owners of the source R, as a set
    attempts     \* history: how many recv_move futures were created

vars == << sent, input, arrived, ended, srcPos, st, fut, alive, out, last,
           frameStart, closedPolls, holder, attempts >>

\* -------------------------------------------------------- results, errors
Pending == [kind |-> "Pending"]
ReadyNone == [kind |-> "None"]
ReadyPacket(p) == [kind |-> "Packet", packet |-> p]
ReadyErr(e) == [kind |-> "Err", err |-> e]

\* Error::Header { source }, Error::Body { size, source }, Error::NoGoodbye
HeaderErr(src) == [variant |-> "Header", source |-> src]
BodyErr(size, src) == [variant |-> "Body", size |-> size, source |-> src]
NoGoodbyeErr == [variant |-> "NoGoodbye"]

\* The future before its first poll; also what the slot holds when idle.
NewFut == [pc |-> "read_head", head |-> <<>>, body |-> <<>>]

\* ------------------------------------------------------------- the source
\* AsyncRead::poll_read on the source with a buffer of `want` > 0 bytes, the
\* source being at `pos`: some of the arrived bytes, or, with none left,
\* Pending while the source is open, 0 at the end of input, an io::Error if
\* the source failed.  A read hands out a single byte or all that fits; every
\* other way of cutting the bytes into reads arises with arrivals in between.
poll_read(pos, want) ==
    IF arrived > pos
    THEN { [kind |-> "ok", n |-> n] : n \in {1, Min(want, arrived - pos)} }
    ELSE IF ended = "open" THEN { [kind |-> "pending", n |-> 0] }
    ELSE IF ended = "eof" THEN { [kind |-> "ok", n |-> 0] }
    ELSE { [kind |-> "err", n |-> 0] }

\* The n bytes the source hands out at pos.
Bytes(pos, n) == SubSeq(input, pos + 1, pos + n)

\* --------------------------------------------------------------- the future
\* Outcomes of one poll of the future: it suspends (and keeps what it read),
\* or it completes with recv's Result<Option<Packet>, Error>.
Suspended_forgets(f, pos, reads) ==
    [fut |-> [pc |-> "read_head", head |-> <<>>, body |-> <<>>], pos |-> pos,
     res |-> [kind |-> "Pending"], reads |-> reads]
Suspended(f, pos, reads) ==
    [fut |-> f, pos |-> pos, res |-> [kind |-> "Pending"], reads |-> reads]
Completed_one_past(pos, reads, res) ==
    [fut |-> [pc |-> "read_head", head |-> <<>>, body |-> <<>>],
     pos |-> Min(pos + 1, arrived), res |-> res, reads |-> reads]
Completed_rewinds(pos, reads, res) ==
    [fut |-> [pc |-> "read_head", head |-> <<>>, body |-> <<>>],
     pos |-> IF res.kind = "Ok" /\ res.some # <<>> THEN 0 ELSE pos,
     res |-> res, reads |-> reads]
Completed(pos, reads, res) ==
    [fut |-> NewFut, pos |-> pos, res |-> res, reads |-> reads]
OkNone == [kind |-> "Ok", some |-> <<>>]
OkSome(p) == [kind |-> "Ok", some |-> <<p>>]
Err(e) == [kind |-> "Err", err |-> e]

\* ensure!(n != 0, NoGoodbye) on the count of the first header read.
first_read_unchecked(n) == "continue"
first_read(n) == IF n = 0 THEN "NoGoodbye" ELSE "continue"

\* if n < head.len() { r.read_exact(&mut head[n..]) }: where recv goes on.
after_first_read(n) == IF n < HeadLen THEN "read_head_rest" ELSE "parsed"

\* .context(Header) on a failed header read.
header_err_as_no_goodbye(src) == NoGoodbyeErr
header_err(src) == HeaderErr(src)

\* .context(Body { size: body_len }) on a failed body read.
body_err_bytes_read(f, src) == BodyErr(U32(Len(f.body)), src)
body_err(f, src) == BodyErr(body_len_of(f.head), src)

\* read_exact(&mut head[n..]) and read_exact(&mut body) store what a read
\* returns behind the bytes already in the buffer.
head_fill_front(buf, bytes) == bytes \o buf
head_fill(buf, bytes) == buf \o bytes
body_fill(buf, bytes) == buf \o bytes

\* read_exact's loop test, while !buf.is_empty(), for the body buffer
\* vec![0; body_len] of which Len(f.body) bytes are filled.
body_complete_always(f) == TRUE
body_complete_never_empty(f) ==
    Len(f.body) > 0 /\ U32Is(body_len_of(f.head), Len(f.body))
body_complete(f) == U32Is(body_len_of(f.head), Len(f.body))

\* One poll of recv_move(r): recv runs from its suspension point f.pc until a
\* read suspends or recv returns.  `reads` counts the poll_read calls issued.
RECURSIVE recv(_, _, _)
\* recv running on past an await point that did not suspend: the locals it
\* carries there are values, computed once.
resume(f, pos, reads) ==
    UNION { recv(c.f, c.pos, c.reads) :
            c \in { [f |-> f, pos |-> pos, reads |-> reads] } }
recv(f, pos, reads) ==
    CASE f.pc = "read_head" ->
        \* let n = r.read(&mut head).await.context(Header)?;
        UNION { IF rd.kind = "pending" THEN { Suspended(f, pos, reads + 1) }
                ELSE IF rd.kind = "err"
                    THEN { Completed(pos, reads + 1, Err(header_err("io"))) }
                ELSE IF first_read(rd.n) = "NoGoodbye"
                    THEN { Completed(pos, reads + 1, Err(NoGoodbyeErr)) }
                ELSE resume([f EXCEPT !.pc = after_first_read(rd.n),
                                    !.head = Bytes(pos, rd.n)],
                          pos + rd.n, reads + 1)
              : rd \in poll_read(pos, HeadLen) }
      [] f.pc = "read_head_rest" ->
        \* r.read_exact(&mut head[n..]).await.context(Header)?;
        IF Len(f.head) = HeadLen
        THEN resume([f EXCEPT !.pc = "parsed"], pos, reads)
        ELSE UNION {
                IF rd.kind = "pending" THEN { Suspended(f, pos, reads + 1) }
                ELSE IF rd.kind = "err"
                    THEN { Completed(pos, reads + 1, Err(header_err("io"))) }
                ELSE IF rd.n = 0
                    THEN { Completed(pos, reads + 1,
                                     Err(header_err("UnexpectedEof"))) }
                ELSE resume([f EXCEPT !.head = head_fill(@, Bytes(pos, rd.n))],
                          pos + rd.n, reads + 1)
              : rd \in poll_read(pos, HeadLen - Len(f.head)) }
      [] f.pc = "parsed" ->
        \* if head == [0u8; 9] { return Ok(None); }
        IF is_goodbye(f.head)
        THEN { Completed(pos, reads, OkNone) }
        ELSE resume([f EXCEPT !.pc = "read_body"], pos, reads)
      [] OTHER ->
        \* r.read_exact(&mut body).await.context(Body { size: body_len })?;
        IF body_complete(f)
        THEN { Completed(pos, reads, OkSome(new_packet(f.head, f.body))) }
        ELSE UNION {
                IF rd.kind = "pending" THEN { Suspended(f, pos, reads + 1) }
                ELSE IF rd.kind = "err"
                    THEN { Completed(pos, reads + 1, Err(body_err(f, "io"))) }
                ELSE IF rd.n = 0
                    THEN { Completed(pos, reads + 1,
                                     Err(body_err(f, "UnexpectedEof"))) }
                ELSE resume([f EXCEPT !.body = body_fill(@, Bytes(pos, rd.n))],
                          pos + rd.n, reads + 1)
              : rd \in poll_read(pos,
                    U32Left(body_len_of(f.head), Len(f.body), arrived - pos + 1)) }

\* -------------------------------------------------------------- the decoder
\* The arms of `match f.as_mut().poll(cx)` in next: the state to install and
\* the value poll_next returns.
on_poll_retries_err(o) ==
    IF o.res.kind = "Pending" \/ o.res.kind = "Err"
        THEN [st |-> "Waiting", fut |-> o.fut, pos |-> o.pos, reads |-> o.reads,
              poll |-> Pending, holder |-> {"future"}, started |-> 0]
    ELSE IF o.res.some = <<>>
        THEN [st |-> "Closed", fut |-> o.fut, pos |-> o.pos, reads |-> o.reads,
              poll |-> ReadyNone, holder |-> {"slot"}, started |-> 0]
    ELSE [st |-> "Ready", fut |-> o.fut, pos |-> o.pos, reads |-> o.reads,
          poll |-> ReadyPacket(o.res.some[1]), holder |-> {"slot"},
          started |-> 0]
on_poll_swallows_err(o) ==
    IF o.res.kind = "Pending"
        THEN [st |-> "Waiting", fut |-> o.fut, pos |-> o.pos, reads |-> o.reads,
              poll |-> Pending, holder |-> {"future"}, started |-> 0]
    ELSE IF o.res.kind = "Err" \/ o.res.some = <<>>
        THEN [st |-> "Closed", fut |-> o.fut, pos |-> o.pos, reads |-> o.reads,
              poll |-> ReadyNone, holder |-> {"slot"}, started |-> 0]
    ELSE [st |-> "Ready", fut |-> o.fut, pos |-> o.pos, reads |-> o.reads,
          poll |-> ReadyPacket(o.res.some[1]), holder |-> {"slot"},
          started |-> 0]
on_poll_none_stays_ready(o) ==
    IF o.res.kind = "Pending"
        THEN [st |-> "Waiting", fut |-> o.fut, pos |-> o.pos, reads |-> o.reads,
              poll |-> Pending, holder |-> {"future"}, started |-> 0]
    ELSE IF o.res.kind = "Err"
        THEN [st |-> "Closed", fut |-> o.fut, pos |-> o.pos, reads |-> o.reads,
              poll |-> ReadyErr(o.res.err), holder |-> {"slot"}, started |-> 0]
    ELSE [st |-> "Ready", fut |-> o.fut, pos |-> o.pos, reads |-> o.reads,
          poll |-> IF o.res.some = <<>> THEN ReadyNone
                   ELSE ReadyPacket(o.res.some[1]),
          holder |-> {"slot"}, started |-> 0]
on_poll(o) ==
    IF o.res.kind = "Pending"
        THEN [st |-> "Waiting", fut |-> o.fut, pos |-> o.pos, reads |-> o.reads,
              poll |-> Pending, holder |-> {"future"}, started |-> 0]
    ELSE IF o.res.kind = "Ok" /\ o.res.some = <<>>
        THEN [st |-> "Closed", fut |-> o.fut, pos |-> o.pos, reads |-> o.reads,
              poll |-> ReadyNone, holder |-> {"slot"}, started |-> 0]
    ELSE IF o.res.kind = "Err"
        THEN [st |-> "Closed", fut |-> o.fut, pos |-> o.pos, reads |-> o.reads,
              poll |-> ReadyErr(o.res.err), holder |-> {"slot"}, started |-> 0]
    ELSE [st |-> "Ready", fut |-> o.fut, pos |-> o.pos, reads |-> o.reads,
          poll |-> ReadyPacket(o.res.some[1]), holder |-> {"slot"},
          started |-> 0]

\* State::Waiting(mut f) => match f.as_mut().poll(cx) { ... }
next_waiting(f, pos) == { on_poll(o) : o \in recv(f, pos, 0) }

\* State::Ready(r) => next(State::Waiting(Box::pin(recv_move(r))), cx): the
\* source moves into a new future, which is polled in the same call.
next_ready_defers(pos) ==
    { [st |-> "Waiting", fut |-> NewFut, pos |-> pos, reads |-> 0,
       poll |-> Pending, holder |-> {"future"}, started |-> 1] }
next_ready(pos) ==
    { [o EXCEPT !.started = 1] : o \in next_waiting(NewFut, pos) }

\* fn next(state, cx) -> (State, Poll<Option<Result<Packet, Error>>>).
\* Ready starts recv_move(r) and polls it at once; Invalid panics.
next_restarts_while_waiting(s, f, pos) ==
    CASE s = "Ready"   -> next_ready(pos)
      [] s = "Waiting" -> next_ready(pos)
      [] s = "Closed"  ->
            { [st |-> "Closed", fut |-> f, pos |-> pos, reads |-> 0,
               poll |-> ReadyNone, holder |-> {"slot"}, started |-> 0] }
      [] OTHER         -> {}
next_closed_restarts(s, f, pos) ==
    CASE s = "Ready"   -> next_ready(pos)
      [] s = "Waiting" -> next_waiting(f, pos)
      [] s = "Closed"  -> next_ready(pos)
      [] OTHER         -> {}
next(s, f, pos) ==
    CASE s = "Ready"   -> next_ready(pos)
      [] s = "Waiting" -> next_waiting(f, pos)
      [] s = "Closed"  ->
            { [st |-> "Closed", fut |-> f, pos |-> pos, reads |-> 0,
               poll |-> ReadyNone, holder |-> {"slot"}, started |-> 0] }
      [] OTHER         -> {}

\* self.state = state, after next(self.state.take(), cx) left Invalid there.
install_skipped_on_pending(o) == IF o.poll = Pending THEN "Invalid" ELSE o.st
install(o) == o.st

\* match &self.state { State::Closed(_) => true, _ => false }
state_is_closed_not_ready(s) == s # "Ready"
state_is_closed(s) == s = "Closed"

\* match self.state.take() { Ready(r) | Closed(r) => r, _ => panic!() }
take_inner_always(s) == "source"
take_inner(s) == IF s \in {"Ready", "Closed"} THEN "source" ELSE "panic"

NoPoll == [kind |-> "-"]
\* What an operation other than poll_next records: its name, what it
\* returned, and the state it found in the slot when it was called.
Returned(op, ret) ==
    [op |-> op, poll |-> NoPoll, reads |-> 0, ret |-> ret, seen |-> st]
BoolStr(b) == IF b THEN "true" ELSE "false"

\* PacketStream::new(r) over a source of which nothing has arrived yet.
Init ==
    /\ sent \in Streams
    /\ input = Wire(sent)
    /\ arrived = 0
    /\ ended = "open"
    /\ srcPos = 0
    /\ st = "Ready"
    /\ fut = NewFut
    /\ alive = TRUE
    /\ out = <<>>
    /\ last = Returned("new", "-")
    /\ frameStart = 0
    /\ closedPolls = 0
    /\ holder = {"slot"}
    /\ attempts = 0

\* The peer's next k bytes reach the source.  (The source is followed only
\* while the decoder exists.)
Deliver ==
    /\ alive
    /\ ended = "open"
    /\ \E k \in 1..(Len(input) - arrived) : arrived' = arrived + k
    /\ UNCHANGED << sent, input, ended, srcPos, st, fut, alive, out, last,
                    frameStart, closedPolls, holder, attempts >>

\* The source ends after the bytes that arrived: end of input, or a failure.
Close ==
    /\ alive
    /\ ended = "open"
    /\ ended' \in {"eof", "err"}
    /\ UNCHANGED << sent, input, arrived, srcPos, st, fut, alive, out, last,
                    frameStart, closedPolls, holder, attempts >>

\* Stream::poll_next: next(self.state.take(), cx), install the state, return
\* the poll.
poll_next ==
    /\ alive
    /\ st = "Closed" => closedPolls < MaxClosedPolls
    /\ \E o \in next(st, fut, srcPos) :
        /\ st' = install(o)
        /\ fut' = o.fut
        /\ srcPos' = o.pos
        /\ last' = [op |-> "poll_next", poll |-> o.poll, reads |-> o.reads,
                    ret |-> "-", seen |-> st]
        /\ out' = IF st # "Closed" /\ o.poll.kind # "Pending"
                  THEN Append(out, o.poll) ELSE out
        /\ holder' = o.holder
        /\ attempts' = attempts + o.started
    /\ frameStart' = IF st = "Ready" THEN srcPos ELSE frameStart
    /\ closedPolls' = IF st = "Closed" THEN closedPolls + 1 ELSE closedPolls
    /\ UNCHANGED << sent, input, arrived, ended, alive >>

\* PacketStream::is_closed(&self)
is_closed ==
    /\ alive
    /\ last' = Returned("is_closed", BoolStr(state_is_closed(st)))
    /\ UNCHANGED << sent, input, arrived, ended, srcPos, st, fut, alive, out,
                    frameStart, closedPolls, holder, attempts >>

\* FusedStream::is_terminated(&self) { self.is_closed() }
is_terminated ==
    /\ alive
    /\ last' = Returned("is_terminated", BoolStr(state_is_closed(st)))
    /\ UNCHANGED << sent, input, arrived, ended, srcPos, st, fut, alive, out,
                    frameStart, closedPolls, holder, attempts >>

\* PacketStream::into_inner(self): the decoder is consumed; take() leaves
\* Invalid in the slot, and the source is returned or the call panics.
into_inner ==
    /\ alive
    /\ alive' = FALSE
    /\ st' = "Invalid"
    /\ fut' = NewFut
    /\ last' = Returned("into_inner", take_inner(st))
    /\ holder' = IF take_inner(st) = "source" THEN {"caller"} ELSE {}
    /\ UNCHANGED << sent, input, arrived, ended, srcPos, out, frameStart,
                    closedPolls, attempts >>

\* The owner drops the decoder (in any state): the slot, and with it the
\* pending future and the source it holds, are discarded.
drop ==
    /\ alive
    /\ alive' = FALSE
    /\ holder' = {}
    /\ last' = Returned("drop", "-")
    /\ UNCHANGED << sent, input, arrived, ended, srcPos, st, fut, out,
                    frameStart, closedPolls, attempts >>

Next ==
    \/ Deliver
    \/ Close
    \/ poll_next
    \/ is_closed
    \/ is_terminated
    \/ into_inner
    \/ drop

Spec == Init /\ [][Next]_vars

\* The decoder kept and driven to the end: the owner neither drops it nor
\* takes the source back. The source is finite (every byte it will deliver
\* arrives, and then it ends), and the task that got Pending is woken and
\* polls again.
NextPolled ==
    \/ Deliver
    \/ Close
    \/ poll_next

\* One frame, without a body or with the longest body, and the goodbye; Close
\* cuts the stream after any number of its bytes.
FairStreams ==
    { << f, Goodbye >> :
        f \in { g \in Frames : /\ g.flag = 10 /\ g.id = -1
                               /\ g.len \in {U32(0), U32(MaxBody)} } }

FairInit == Init /\ sent \in FairStreams

FairSpec ==
    /\ FairInit
    /\ [][NextPolled]_vars
    /\ WF_vars(Deliver)
    /\ WF_vars(Close)
    /\ WF_vars(poll_next)

\* ------------------------------------------------------- reading the history
Zeros == [i \in 1..HeadLen |-> 0]

\* Where the k-th written frame begins and ends in the source.
FrameEnd(k) == Len(Wire(SubSeq(sent, 1, k)))
FrameBegin(k) == FrameEnd(k - 1)

\* A frame that carries as many body bytes as it declares, and whose header
\* is not the goodbye marker.
WellFormed(f) == U32Is(f.len, Len(f.body)) /\ encode_header(f) # Zeros
ValidPrefix(k) == \A j \in 1..k : WellFormed(sent[j])

\* The packet a well-formed frame stands for.
PacketOf(f) == [flags |-> decode_flags(f.flag), id |-> f.id, body |-> f.body]

NumPackets == Cardinality({ i \in 1..Len(out) : out[i].kind = "Packet" })
LastOut == out[Len(out)]

\* Where the decode attempt that a poll_next runs (or resumes) began.
AttemptStart == IF st = "Ready" THEN srcPos ELSE frameStart
\* The written frame that begins at pos, if one does.
IsFrameStart(pos) == \E k \in 1..Len(sent) : FrameBegin(k) = pos
FrameAt(pos) == sent[CHOOSE k \in 1..Len(sent) : FrameBegin(k) = pos]

\* Steps of the operations, told by what they record.
PollStep == last'.op = "poll_next" /\ arrived' = arrived /\ ended' = ended
DecodeStep == PollStep /\ st \in {"Ready", "Waiting"}
QueryStep ==
    /\ last'.op \in {"is_closed", "is_terminated"}
    /\ arrived' = arrived /\ ended' = ended
IntoInnerStep == alive /\ ~alive' /\ last'.op = "into_inner"
DropStep == alive /\ ~alive' /\ last'.op = "drop"
IoSource == IF ended = "eof" THEN "UnexpectedEof" ELSE "io"

TypeOK ==
    /\ sent \in Streams
    /\ input = Wire(sent)
    /\ arrived \in 0..Len(input)
    /\ srcPos \in 0..arrived
    /\ ended \in {"open", "eof", "err"}
    /\ st \in {"Ready", "Waiting", "Closed", "Invalid"}
    /\ fut.pc \in {"read_head", "read_head_rest", "read_body"}
    /\ alive \in BOOLEAN
    /\ closedPolls \in 0..MaxClosedPolls

\* ------------------------------------------------------------------ claims

\* C1 (round trip): for every written frame k whose header and body have
\* arrived, all frames up to k being well-formed, the k-th result of the
\* decoder is the packet with the frame's flag classification, its id (also
\* when negative) and its body; it is emitted once the frame's last byte is
\* read, and not before.
C1_RoundTrip ==
    \A k \in 1..Len(sent) :
        (ValidPrefix(k) /\ arrived >= FrameEnd(k)) =>
            /\ Len(out) >= k => out[k] = ReadyPacket(PacketOf(sent[k]))
            /\ srcPos >= FrameEnd(k) => Len(out) >= k
            /\ srcPos < FrameEnd(k) => NumPackets < k
C1_Witness ==
    /\ Len(out) = 2
    /\ out[1].kind = "Packet" /\ out[1].packet.id = -1
    /\ out[1].packet.body = <<1, 2>>
    /\ out[2].kind = "Packet" /\ out[2].packet.id = 12345
    /\ out[2].packet.flags.body_type = "Utf8"

\* C2 (goodbye): once the nine zero bytes of a goodbye header that follows
\* well-formed frames are read, the decode attempt has reported "stream
\* finished" and no packet, the state is Closed, and every is_closed and
\* is_terminated query made from then on returns true.
C2_Goodbye ==
    \A k \in 1..Len(sent) :
        (ValidPrefix(k - 1) /\ encode_header(sent[k]) = Zeros
            /\ srcPos >= FrameBegin(k) + HeadLen) =>
            /\ Len(out) = k /\ out[k] = ReadyNone
            /\ NumPackets = k - 1
            /\ srcPos = FrameBegin(k) + HeadLen
            /\ alive => st = "Closed"
            /\ last.op \in {"is_closed", "is_terminated"} => last.ret = "true"
C2_Witness ==
    /\ sent[1] = Goodbye
    /\ out = <<ReadyNone>>
    /\ st = "Closed"
    /\ last.op = "is_terminated" /\ last.ret = "true"

\* C3 (idempotent termination): once a decode attempt has ended with "stream
\* finished" or with an error, every poll_next returns "stream finished",
\* leaves the state Closed and issues no read to the source.
Terminated == out # <<>> /\ LastOut.kind \in {"None", "Err"}
C3_IdempotentTermination ==
    [][ (Terminated /\ PollStep) =>
            /\ last'.poll = ReadyNone
            /\ st' = "Closed"
            /\ last'.reads = 0
            /\ srcPos' = srcPos /\ out' = out ]_vars
C3_Witness ==
    /\ out = <<ReadyNone>>
    /\ closedPolls = MaxClosedPolls
    /\ last.op = "poll_next" /\ last.poll = ReadyNone
    /\ arrived > srcPos

\* C4 (abrupt closure): a poll_next whose decode attempt has read no header
\* byte yet, on a source that has ended cleanly with nothing left, returns the
\* NoGoodbye error and leaves the decoder Closed.
C4_AbruptClosure ==
    [][ (DecodeStep /\ srcPos = AttemptStart /\ arrived = srcPos
            /\ ended = "eof") =>
            /\ last'.poll = ReadyErr(NoGoodbyeErr)
            /\ st' = "Closed" ]_vars
C4_Witness ==
    /\ Len(out) = 2
    /\ out[1].kind = "Packet"
    /\ out[2] = ReadyErr(NoGoodbyeErr)
    /\ st = "Closed"

\* C5 (truncated header): a poll_next on a source that has ended with 1 to 8
\* bytes of the header of the current attempt, or that has failed before the
\* first of them, returns the Header error and leaves the decoder Closed.
C5_TruncatedHeader ==
    [][ (DecodeStep /\ ended # "open"
            /\ \/ arrived - AttemptStart \in 1..(HeadLen - 1)
               \/ arrived = AttemptStart /\ ended = "err") =>
            /\ last'.poll = ReadyErr(HeaderErr(IoSource))
            /\ st' = "Closed"
            /\ out' = Append(out, last'.poll) ]_vars
C5_Witness ==
    /\ Len(out) = 2
    /\ out[1].kind = "Packet"
    /\ out[2] = ReadyErr(HeaderErr("UnexpectedEof"))
    /\ srcPos - frameStart = 4
    /\ st = "Closed"

\* C6 (body failure): a poll_next on a source that has ended after the whole
\* header of a frame that is not the goodbye, but before the declared number
\* of body bytes, returns the Body error whose size is the declared length,
\* emits no packet and leaves the decoder Closed.
C6_BodyFailure ==
    [][ (DecodeStep /\ ended # "open" /\ IsFrameStart(AttemptStart)
            /\ arrived - AttemptStart >= HeadLen
            /\ encode_header(FrameAt(AttemptStart)) # Zeros
            /\ ~ (FrameAt(AttemptStart).len.hi = 0
                  /\ FrameAt(AttemptStart).len.lo
                        <= arrived - AttemptStart - HeadLen)) =>
            /\ last'.poll =
                 ReadyErr(BodyErr(FrameAt(AttemptStart).len, IoSource))
            /\ st' = "Closed"
            /\ out' = Append(out, last'.poll) ]_vars
C6_Witness ==
    /\ out = <<ReadyErr(BodyErr(U32(2), "UnexpectedEof"))>>
    /\ srcPos = HeadLen + 1
    /\ st = "Closed"

\* C7 (short header reads): however the reads cut the header, the bytes the
\* future holds are the source's bytes from the start of the attempt, in
\* order, and each attempt whose nine header bytes were read ended as the
\* header read in one piece decides: "finished" for nine zeros, otherwise a
\* packet with the header's flags and id, or the Body error with its length.
HeaderAt(pos) == Bytes(pos, HeadLen)
C7_ShortHeaderReads ==
    /\ st = "Waiting" =>
        /\ fut.head = Bytes(frameStart, Len(fut.head))
        /\ srcPos = frameStart + Len(fut.head) + Len(fut.body)
        /\ fut.pc = "read_body" => Len(fut.head) = HeadLen
        /\ fut.pc # "read_body" => Len(fut.head) \in 0..(HeadLen - 1)
    /\ \A k \in 1..Len(out) :
        LET b == FrameBegin(k)
            e == IF out[k].kind = "Packet" THEN FrameEnd(k) ELSE srcPos
        IN  e - b >= HeadLen =>
                IF is_goodbye(HeaderAt(b)) THEN out[k] = ReadyNone
                ELSE \/ /\ out[k].kind = "Packet"
                        /\ out[k].packet.id = id_of(HeaderAt(b))
                        /\ out[k].packet.flags = decode_flags(HeaderAt(b)[1])
                        /\ U32Is(body_len_of(HeaderAt(b)), Len(out[k].packet.body))
                     \/ /\ out[k].kind = "Err"
                        /\ out[k].err.variant = "Body"
                        /\ out[k].err.size = body_len_of(HeaderAt(b))
C7_Witness ==
    /\ last.op = "poll_next" /\ last.reads = HeadLen
    /\ last.poll.kind = "Packet" /\ last.poll.packet.id = -1
    /\ last.poll.packet.body = <<>>
    /\ out = <<last.poll>>

\* C8 (zero-length body): a poll_next for a frame that declares length 0 and
\* is not the goodbye, all of whose header has arrived, returns the packet
\* with an empty body and leaves the decoder Ready with the source just behind
\* the header, also when nothing else has arrived and the source is open.
C8_ZeroLengthBody ==
    [][ (DecodeStep /\ IsFrameStart(AttemptStart)
            /\ arrived - AttemptStart >= HeadLen
            /\ encode_header(FrameAt(AttemptStart)) # Zeros
            /\ FrameAt(AttemptStart).len = U32(0)) =>
            /\ last'.poll = ReadyPacket(PacketOf(FrameAt(AttemptStart)))
            /\ last'.poll.packet.body = <<>>
            /\ st' = "Ready"
            /\ srcPos' = AttemptStart + HeadLen ]_vars
C8_Witness ==
    /\ last.op = "poll_next" /\ last.poll.kind = "Packet"
    /\ last.poll.packet.body = <<>>
    /\ st = "Ready"
    /\ arrived = HeadLen /\ srcPos = HeadLen /\ ended = "open"

\* C9 (resource extraction): into_inner returns the source from Ready and
\* from Closed and panics from Waiting; and the decoder is Waiting exactly
\* after a poll_next that returned "not ready yet".
C9_IntoInner ==
    [][ /\ IntoInnerStep =>
            /\ st \in {"Ready", "Closed"} => last'.ret = "source"
            /\ st = "Waiting" => last'.ret = "panic"
            /\ st \in {"Ready", "Waiting", "Closed"}
        /\ PollStep => (last'.poll = Pending <=> st' = "Waiting") ]_vars
C9_Witness ==
    /\ last.op = "into_inner" /\ last.ret = "panic"
    /\ ~alive
    /\ srcPos \in 1..(HeadLen - 1)

\* C10 (finished query): is_closed and is_terminated return true exactly
\* when the state is Closed, and change neither the decoder nor the source,
\* which they do not read.
C10_FinishedQuery ==
    [][ QueryStep =>
            /\ last'.ret = "true" <=> st = "Closed"
            /\ last'.ret \in {"true", "false"}
            /\ last'.reads = 0
            /\ UNCHANGED << st, fut, srcPos, alive, out, input >> ]_vars
C10_Witness ==
    /\ last.op = "is_terminated" /\ last.ret = "false"
    /\ st = "Waiting" /\ fut.pc = "read_body"

\* C11 (placeholder never observed): every poll_next, is_closed,
\* is_terminated and into_inner call finds Ready, Waiting or Closed in the
\* slot, never Invalid; while the decoder exists the slot holds one of the
\* three, and Invalid is left there only by the into_inner that consumed it.
C11_PlaceholderNeverObserved ==
    /\ last.seen \in {"Ready", "Waiting", "Closed"}
    /\ alive => st \in {"Ready", "Waiting", "Closed"}
    /\ st = "Invalid" => (~alive /\ last.op = "into_inner")
C11_Witness ==
    /\ alive /\ st = "Waiting"
    /\ last.op = "is_closed" /\ last.seen = "Waiting"
    /\ Len(out) = 1 /\ attempts = 2

\* C12 (single ownership): while the decoder exists the source has exactly
\* one owner, the slot in Ready and Closed and the pending future in Waiting;
\* at most one future is in flight, exactly in Waiting; and a future is
\* created only by a poll_next that found Ready.
InFlight == attempts - Len(out)
C12_SingleOwnership ==
    [][ /\ alive' =>
            /\ Cardinality(holder') = 1
            /\ holder' = {"future"} <=> st' = "Waiting"
            /\ holder' = {"slot"} <=> st' \in {"Ready", "Closed"}
            /\ InFlight' \in {0, 1}
            /\ InFlight' = 1 <=> st' = "Waiting"
        /\ attempts' # attempts =>
            /\ st = "Ready" /\ attempts' = attempts + 1
            /\ last'.op = "poll_next" ]_vars
C12_Witness ==
    /\ alive /\ st = "Waiting" /\ holder = {"future"}
    /\ attempts = 2 /\ Len(out) = 1
    /\ fut.pc = "read_head_rest"
    /\ last.op = "poll_next" /\ last.seen = "Waiting"

\* C13 (result and state): after every poll_next, Pending goes with Waiting,
\* a packet with Ready and the source back in the slot, an error or "stream
\* finished" with Closed; and once the source has ended, the poll_next of a
\* decode attempt returns the attempt's result, which is an error whenever
\* the remaining bytes hold neither a whole frame nor a goodbye header.
AttemptAvail == arrived - AttemptStart
AttemptCanEnd ==
    /\ AttemptAvail >= HeadLen
    /\ \/ is_goodbye(Bytes(AttemptStart, HeadLen))
       \/ /\ body_len_of(Bytes(AttemptStart, HeadLen)).hi = 0
          /\ body_len_of(Bytes(AttemptStart, HeadLen)).lo
                <= AttemptAvail - HeadLen
C13_ResultStateCorrespondence ==
    [][ PollStep =>
            /\ last'.poll.kind \in {"Pending", "Packet", "Err", "None"}
            /\ last'.poll.kind = "Pending" => st' = "Waiting"
            /\ last'.poll.kind = "Packet" =>
                    (st' = "Ready" /\ holder' = {"slot"})
            /\ last'.poll.kind \in {"Err", "None"} => st' = "Closed"
            /\ (DecodeStep /\ ended # "open") =>
                    /\ last'.poll.kind # "Pending"
                    /\ out' = Append(out, last'.poll)
                    /\ ~AttemptCanEnd => last'.poll.kind = "Err" ]_vars
C13_Witness ==
    /\ last.op = "poll_next" /\ last.poll.kind = "Err"
    /\ last.poll.err.variant = "Body"
    /\ st = "Closed" /\ ended = "err"
    /\ out = <<ReadyPacket(PacketOf(sent[1])), last.poll>>

\* C14 (immediate progress from Ready): a poll_next that finds Ready creates
\* the future and polls it in the same call (it reads the source), leaves
\* Ready in the slot only when it returns a packet, and returns the packet at
\* once when all bytes of a well-formed frame have arrived.
C14_ImmediateProgress ==
    [][ (PollStep /\ st = "Ready") =>
            /\ attempts' = attempts + 1
            /\ last'.reads >= 1
            /\ st' = "Ready" => last'.poll.kind = "Packet"
            /\ (/\ IsFrameStart(srcPos)
                /\ WellFormed(FrameAt(srcPos))
                /\ arrived >= srcPos + HeadLen + Len(FrameAt(srcPos).body)) =>
                    /\ last'.poll = ReadyPacket(PacketOf(FrameAt(srcPos)))
                    /\ st' = "Ready" ]_vars
C14_Witness ==
    /\ last.op = "poll_next" /\ last.seen = "Ready"
    /\ last.poll.kind = "Packet" /\ last.reads = 2
    /\ Len(out) = 2 /\ attempts = 2
    /\ st = "Ready"

\* C15 (suspension transparency): whatever the arrivals, the read sizes and
\* the suspensions, the results so far are a prefix of, and on a Closed
\* decoder are, the results of decoding the arrived bytes with no suspension
\* at all; and a suspended future holds exactly the bytes read since the
\* attempt began, the source standing just behind them.
RECURSIVE Unsuspended(_)
Unsuspended(pos) ==
    IF arrived - pos < HeadLen
    THEN IF ended = "open" THEN <<>>
         ELSE IF arrived = pos /\ ended = "eof"
            THEN << ReadyErr(NoGoodbyeErr) >>
         ELSE << ReadyErr(HeaderErr(IoSource)) >>
    ELSE IF is_goodbye(HeaderAt(pos)) THEN << ReadyNone >>
    ELSE LET bl == body_len_of(HeaderAt(pos)) IN
         IF bl.hi = 0 /\ bl.lo <= arrived - pos - HeadLen
         THEN << ReadyPacket(new_packet(HeaderAt(pos),
                                        Bytes(pos + HeadLen, bl.lo))) >>
              \o Unsuspended(pos + HeadLen + bl.lo)
         ELSE IF ended = "open" THEN <<>>
         ELSE << ReadyErr(BodyErr(bl, IoSource)) >>
IsPrefix(a, b) == Len(a) <= Len(b) /\ a = SubSeq(b, 1, Len(a))
C15_SuspensionTransparency ==
    /\ IsPrefix(out, Unsuspended(0))
    /\ st = "Closed" => out = Unsuspended(0)
    /\ st = "Waiting" =>
        /\ fut.head \o fut.body = Bytes(frameStart, srcPos - frameStart)
        /\ Len(fut.head) <= HeadLen
        /\ fut.body # <<>> => Len(fut.head) = HeadLen
C15_Witness ==
    /\ Len(out) = 2 /\ out[2].kind = "Packet"
    /\ last.op = "poll_next" /\ last.poll = out[2]
    /\ last.seen = "Waiting" /\ last.reads = 1

\* C16 (termination): with a finite source and a decoder polled again after
\* every Pending, every decode attempt in flight eventually completes, and
\* the decoder eventually is Closed and stays Closed.
C16_Termination ==
    /\ (st = "Waiting") ~> (st # "Waiting")
    /\ <>[](st = "Closed")
C16_Witness ==
    /\ st = "Closed" /\ ended = "eof"
    /\ Len(out) = 2 /\ out[2] = ReadyErr(NoGoodbyeErr)
    /\ Len(out[1].packet.body) = MaxBody
    /\ last.op = "poll_next" /\ last.seen = "Waiting"

\* C17 (no partial packet): the body of every packet poll_next has returned
\* has exactly the length its header declares and is exactly the bytes that
\* follow that header; a poll_next that fails adds the error and no packet;
\* and once the decoder is dropped, whatever its future had read, nothing
\* more is returned.
C17_NoPartialPacket ==
    [][ /\ \A i \in 1..Len(out') : out'[i].kind = "Packet" =>
            /\ U32Is(body_len_of(HeaderAt(FrameBegin(i))),
                     Len(out'[i].packet.body))
            /\ out'[i].packet.body
                = Bytes(FrameBegin(i) + HeadLen, Len(out'[i].packet.body))
        /\ (PollStep /\ last'.poll.kind = "Err") =>
            /\ out' = Append(out, last'.poll)
            /\ st' = "Closed"
        /\ ~alive' => out' = out
        /\ DropStep => (st' = st /\ srcPos' = srcPos) ]_vars
C17_Witness ==
    /\ ~alive /\ last.op = "drop" /\ last.seen = "Waiting"
    /\ fut.pc = "read_body" /\ Len(fut.body) = 1
    /\ U32Is(body_len_of(fut.head), 2)
    /\ out = <<>>

\* C18 (field decoding): header bytes 1-4 are the body length, unsigned and
\* most significant byte first (a set top bit gives 2^31 or more, never a
\* negative length); header bytes 5-8 are the id, two's complement and most
\* significant byte first (negative exactly when the top bit is set); bytes
\* 0,0,0,5 give length 5 and bytes 0,0,0x30,0x39 give id 12345.
C18_FieldDecoding ==
    /\ read_u32(<< 0, 0, 0, 5 >>) = U32(5)
    /\ read_i32(<< 0, 0, 48, 57 >>) = 12345
    /\ (st = "Waiting" /\ Len(fut.head) = HeadLen) =>
        /\ write_u32(body_len_of(fut.head)) = SubSeq(fut.head, 2, 5)
        /\ body_len_of(fut.head).hi >= 0 /\ body_len_of(fut.head).lo >= 0
        /\ fut.head[2] >= 128 <=> body_len_of(fut.head).hi >= 32768
        /\ body_len_of(fut.head) = FrameAt(frameStart).len
        /\ write_i32(id_of(fut.head)) = SubSeq(fut.head, 6, 9)
        /\ fut.head[6] >= 128 <=> id_of(fut.head) < 0
        /\ id_of(fut.head) = FrameAt(frameStart).id
    /\ \A i \in 1..Len(out) : out[i].kind = "Packet" =>
        /\ write_i32(out[i].packet.id) = SubSeq(HeaderAt(FrameBegin(i)), 6, 9)
        /\ write_u32(U32(Len(out[i].packet.body)))
            = SubSeq(HeaderAt(FrameBegin(i)), 2, 5)
C18_Witness ==
    /\ st = "Waiting" /\ fut.pc = "read_body"
    /\ body_len_of(fut.head) = HugeLen
    /\ id_of(fut.head) = -2147483647 - 1
    /\ Len(fut.body) = 1

\* C19 (no read-ahead): the source stands 9 bytes plus the body length past
\* its start for every packet returned, and 9 more for the goodbye, whenever
\* the decoder is Ready or Closed by the goodbye, and so does the source
\* into_inner returns from these states; a suspended attempt has read nothing
\* past the frame it is reading.
RECURSIVE BytesOf(_)
BytesOf(items) ==
    IF items = <<>> THEN 0
    ELSE HeadLen
         + (IF Head(items).kind = "Packet"
            THEN Len(Head(items).packet.body) ELSE 0)
         + BytesOf(Tail(items))
ClosedByGoodbye(s) == s = "Closed" /\ out # <<>> /\ LastOut = ReadyNone
C19_NoReadAhead ==
    /\ (alive /\ st = "Ready") => srcPos = BytesOf(out)
    /\ (alive /\ ClosedByGoodbye(st)) => srcPos = BytesOf(out)
    /\ (alive /\ st = "Waiting") =>
        /\ frameStart = BytesOf(out)
        /\ Len(fut.head) < HeadLen => srcPos < frameStart + HeadLen
        /\ (Len(fut.head) = HeadLen /\ body_len_of(fut.head).hi = 0) =>
                srcPos <= frameStart + HeadLen + body_len_of(fut.head).lo
    /\ (/\ last.op = "into_inner" /\ last.ret = "source"
        /\ (last.seen = "Ready" \/ ClosedByGoodbye(last.seen))) =>
            srcPos = BytesOf(out)
C19_Witness ==
    /\ last.op = "into_inner" /\ last.ret = "source" /\ last.seen = "Ready"
    /\ Len(out) = 1 /\ Len(out[1].packet.body) = 2
    /\ srcPos = HeadLen + 2 /\ arrived > srcPos

\* C20 (order and uniqueness): the results are the packets of the written
\* frames f1..fn in that order, each once, none skipped, and "stream
\* finished" only in the place of the goodbye (the first frame whose header
\* is nine zero bytes), after which nothing follows; results are added and the
\* source is read only by poll_next; and when all bytes of a well-formed
\* stream have arrived, a Closed decoder has returned all of them.
C20_OrderAndUniqueness ==
    [][ /\ Len(out') <= Len(sent)
        /\ \A i \in 1..Len(out') :
            /\ out'[i].kind = "Packet" =>
                (WellFormed(sent[i]) /\ out'[i].packet = PacketOf(sent[i]))
            /\ out'[i].kind = "None" => encode_header(sent[i]) = Zeros
            /\ i < Len(out') => out'[i].kind = "Packet"
        /\ out' # out => (PollStep /\ out = SubSeq(out', 1, Len(out') - 1))
        /\ srcPos' # srcPos => PollStep
        /\ (/\ st' = "Closed" /\ arrived' = Len(input)
            /\ ValidPrefix(Len(sent) - 1)) =>
                out' = [i \in 1..Len(sent) |->
                            IF i < Len(sent) THEN ReadyPacket(PacketOf(sent[i]))
                            ELSE ReadyNone] ]_vars
C20_Witness ==
    /\ st = "Closed" /\ last.op = "poll_next"
    /\ out = << ReadyPacket(PacketOf(sent[1])),
                ReadyPacket(PacketOf(SecondFrame)), ReadyNone >>
    /\ Len(sent[1].body) = MaxBody

====
